---- MODULE Spec2Model ----
(***************************************************************************)
(* Model of the Runway text+image -> video Streamlit application           *)
(* (app.py, app_help.py, app_upd.py): image normalisation, request         *)
(* assembly, submission and the status poll loop.                          *)
(*                                                                         *)
(* Python values are encoded as follows.                                   *)
(*   - None / a missing dictionary key is the token NONE.                  *)
(*   - A ratio string "w:h" is the pair <<w, h>>; ratio_to_float turns it  *)
(*     into the rational [num, den].  Float comparisons and round() are    *)
(*     computed on exact rationals with Python's round-half-to-even.       *)
(*   - The `output` value of a status payload is a record                  *)
(*     [kind, items, str]: kind "none" (missing), "list" (items) or        *)
(*     "str" (a bare string str).                                          *)
(*   - A text (response body) is a record [id, len]: which text it is and  *)
(*     how many characters of it are present.                              *)
(***************************************************************************)
EXTENDS Integers, Sequences, FiniteSets, TLC

----------------------------------------------------------------------------
(* Bounds of the model *)

MaxUploads == 3      \* at most this many files in the uploader
PollBudget == 5      \* the poll budget of the lifecycle contract ("e.g. 5")
MaxPolls == PollBudget + 1   \* status requests explored per run

----------------------------------------------------------------------------
(* Configuration *)

NONE == "<None>"

ALLOWED_RATIOS ==
    << <<1280, 720>>, <<720, 1280>>, <<1104, 832>>,
       <<832, 1104>>, <<960, 960>>, <<1584, 672>> >>

ModelNames == {"gen4_turbo", "gen4_aleph", "veo3", "veo3.1", "veo3.1_fast"}

MODEL_META ==
    [m \in ModelNames |->
        IF m \in {"gen4_turbo", "gen4_aleph"}
        THEN [durations |-> <<5, 10>>,   endpoint |-> "image_to_video"]
        ELSE [durations |-> <<4, 6, 8>>, endpoint |-> "image_to_video"]]

Variants == {"app", "app_help", "app_upd"}

\* max_px of the preprocessing loop, per variant
max_px(v) == IF v = "app_help" THEN 1024 ELSE 1536

\* time.sleep(2) between two polls
POLL_DELAY == 2

\* resp.text[:500] in the st.code display of the submission response
TEXT_SHOWN == 500

Range(s) == {s[i] : i \in DOMAIN s}

Max2(a, b) == IF a >= b THEN a ELSE b
Min2(a, b) == IF a <= b THEN a ELSE b

----------------------------------------------------------------------------
(* Python arithmetic on exact rationals *)

\* int(round(n / d)) for n >= 0, d > 0: round half to even
PyRound(n, d) ==
    LET q == n \div d
        r == n % d
    IN  IF 2 * r > d THEN q + 1
        ELSE IF 2 * r < d THEN q
        ELSE IF q % 2 = 0 THEN q ELSE q + 1

RECURSIVE Gcd(_, _)
Gcd(a, b) == IF b = 0 THEN a ELSE Gcd(b, a % b)

\* ratio_to_float("w:h") = int(w) / int(h): the rational w/h, in lowest terms
ratio_to_float(ratio_str) ==
    LET g == Gcd(ratio_str[1], ratio_str[2])
    IN  [num |-> ratio_str[1] \div g, den |-> ratio_str[2] \div g]

AbsInt(x) == IF x < 0 THEN -x ELSE x

----------------------------------------------------------------------------
(* Image normalisation.  An image is its size [w, h]; a padding step is    *)
(* the canvas size and the offset (x, y) the image is pasted at.           *)

Img(w, h) == [w |-> w, h |-> h]

\* no clamp at all: the image goes to the ratio match as it is
ClampPhase_skipped(img) == [w |-> img.w, h |-> img.h, x |-> 0, y |-> 0, padded |-> FALSE]

\* Phase 1 of normalize_to_ratio_pad: clamp the ratio into [0.5, 2.0]
ClampPhase(img) ==
    LET w == img.w
        h == img.h
    IN  IF w > 2 * h
        THEN LET new_h == PyRound(w, 2)
             IN  [w |-> w, h |-> new_h, x |-> 0, y |-> (new_h - h) \div 2,
                  padded |-> TRUE]
        ELSE IF 2 * w < h
        THEN LET new_w == PyRound(h, 2)
             IN  [w |-> new_w, h |-> h, x |-> (new_w - w) \div 2, y |-> 0,
                  padded |-> TRUE]
        ELSE [w |-> w, h |-> h, x |-> 0, y |-> 0, padded |-> FALSE]

\* abs(w/h - target_ratio) > 1e-3
RatioDiffers(w, h, t) == 1000 * AbsInt(w * t.den - t.num * h) > h * t.den

\* a ratio match that pads the wrong side (the canvas gets smaller than the image)
MatchPhase_wrongside(img, t) ==
    LET w == img.w
        h == img.h
    IN  IF RatioDiffers(w, h, t)
        THEN IF w * t.den < t.num * h
             THEN LET target_h == PyRound(w * t.den, t.num)
                  IN  [w |-> w, h |-> target_h, x |-> 0,
                       y |-> (target_h - h) \div 2, padded |-> TRUE]
             ELSE LET target_w == PyRound(h * t.num, t.den)
                  IN  [w |-> target_w, h |-> h,
                       x |-> (target_w - w) \div 2, y |-> 0, padded |-> TRUE]
        ELSE [w |-> w, h |-> h, x |-> 0, y |-> 0, padded |-> FALSE]

\* Phase 2 of normalize_to_ratio_pad: pad to the target ratio
MatchPhase(img, t) ==
    LET w == img.w
        h == img.h
    IN  IF RatioDiffers(w, h, t)
        THEN IF w * t.den > t.num * h
             THEN LET target_h == PyRound(w * t.den, t.num)
                  IN  [w |-> w, h |-> target_h, x |-> 0,
                       y |-> (target_h - h) \div 2, padded |-> TRUE]
             ELSE LET target_w == PyRound(h * t.num, t.den)
                  IN  [w |-> target_w, h |-> h,
                       x |-> (target_w - w) \div 2, y |-> 0, padded |-> TRUE]
        ELSE [w |-> w, h |-> h, x |-> 0, y |-> 0, padded |-> FALSE]

normalize_to_ratio_pad(img, target_ratio) ==
    LET c == ClampPhase(img)
        m == MatchPhase(Img(c.w, c.h), target_ratio)
    IN  Img(m.w, m.h)

\* the "gentle downscale" of the preprocessing loop:
\* scale = max(w, h) / max_px; if scale > 1.0: resize((int(w/scale), int(h/scale)))
Downscale(img, mpx) ==
    LET m == Max2(img.w, img.h)
    IN  IF m > mpx
        THEN Img((img.w * mpx) \div m, (img.h * mpx) \div m)
        ELSE img

----------------------------------------------------------------------------
(* Python truthiness, texts, remote payloads *)

\* `x or y` takes y when x is None or the empty string
Truthy(tok) == tok \notin {NONE, ""}

\* text[:n]
TextPrefix(text, n) == [about |-> text.about, len |-> Min2(text.len, n)]

OutNone == [kind |-> "none", items |-> <<>>, str |-> ""]
OutList(s) == [kind |-> "list", items |-> s, str |-> ""]
OutStr(u) == [kind |-> "str", items |-> <<>>, str |-> u]

\* truthiness of an `output` value: None, [] and "" are falsy
OutTruthy(o) ==
    CASE o.kind = "none" -> FALSE
      [] o.kind = "list" -> o.items # <<>>
      [] OTHER -> o.str # ""

Js(st, se, o, ro) == [status |-> st, state |-> se, output |-> o, result_output |-> ro]

\* the files the uploader can hold (name and pixel size)
UploadImages ==
    { [name |-> "wide.png", w |-> 2000, h |-> 500],
      [name |-> "hd.jpg",   w |-> 1280, h |-> 720] }

RECURSIVE SeqsUpTo(_, _)
SeqsUpTo(S, n) ==
    IF n = 0 THEN {<<>>}
    ELSE LET shorter == SeqsUpTo(S, n - 1)
         IN  shorter \cup {Append(q, x) : q \in {t \in shorter : Len(t) = n - 1}, x \in S}

\* what the file uploader can return
UploadLists == SeqsUpTo(UploadImages, MaxUploads)

\* what the remote service can answer to the submission
SubmitTexts == {[about |-> a, len |-> n] : a \in {"credits", "ratio", "other"}, n \in {40, 600}}

SubmitResponses ==
    {[status_code |-> 200, text |-> [about |-> "other", len |-> 40], id |-> i[1], task_id |-> i[2]] :
        i \in {<<"t1", NONE>>, <<NONE, "t2">>, <<"", "t2">>, <<NONE, NONE>>}}
    \cup {[status_code |-> 200, text |-> [about |-> "other", len |-> 600], id |-> "t1", task_id |-> NONE]}
    \cup {[status_code |-> c, text |-> t, id |-> NONE, task_id |-> NONE] :
            c \in {201, 400}, t \in SubmitTexts}

\* what the remote service can answer to a status request
StatusTokens ==
    {"SUCCEEDED", "COMPLETED", "succeeded", "completed", "Succeeded",
     "FAILED", "ERROR", "CANCELLED", "failed", "cancelled",
     "PENDING", "RUNNING", "", NONE}

Outputs ==
    {OutNone, OutList(<<>>), OutList(<<"url">>), OutList(<<"url", "url2">>), OutStr("url")}

StatusPayloads ==
    {Js(t, NONE, OutList(<<"url">>), OutNone) : t \in StatusTokens}
    \cup {Js("SUCCEEDED", NONE, o, ro) : o \in Outputs, ro \in {OutNone, OutList(<<"url2">>)}}
    \cup {Js(st, se, OutList(<<"url">>), OutNone) :
            st \in {NONE, "", "PENDING"}, se \in {"SUCCEEDED", "FAILED", "failed"}}

----------------------------------------------------------------------------
(* Helpers of the action *)

SEED == 123456789

\* a slider that offers every duration of every model
DurationOptions_any(m) == UNION {Range(MODEL_META[x].durations) : x \in ModelNames}

\* the options of the duration slider: MODEL_META[model]["durations"]
DurationOptions(m) == Range(MODEL_META[m].durations)

\* one pass of the preprocessing loop: normalize, downscale, encode, data URI
Preprocess(f, ratio_str, v) ==
    LET n == normalize_to_ratio_pad(Img(f.w, f.h), ratio_to_float(ratio_str))
        d == Downscale(n, max_px(v))
    IN  [mime |-> IF v = "app_help" THEN "image/jpeg" ELSE "image/png",
         src |-> f.name, w |-> d.w, h |-> d.h]

\* an endpoint chosen as text-only
Endpoint_text(prompt_images) == "text_to_video"

\* endpoint of start_task
Endpoint(prompt_images) == "image_to_video"

NoUri == [mime |-> "", src |-> "", w |-> 0, h |-> 0]

\* a promptImage whose last element alone is tagged `last`
PromptImage_lastonly(prompt_images) ==
    IF Len(prompt_images) = 1
    THEN [kind |-> "str", uri |-> prompt_images[1], arr |-> <<>>]
    ELSE [kind |-> "list", uri |-> NoUri,
          arr |-> [i \in 1..Len(prompt_images) |->
                     [uri |-> prompt_images[i],
                      position |-> IF i = Len(prompt_images) THEN "last" ELSE "first"]]]

\* the promptImage field built by start_task
PromptImage(prompt_images) ==
    IF Len(prompt_images) = 1
    THEN [kind |-> "str", uri |-> prompt_images[1], arr |-> <<>>]
    ELSE [kind |-> "list", uri |-> NoUri,
          arr |-> [i \in 1..Len(prompt_images) |->
                     [uri |-> prompt_images[i],
                      position |-> IF i = 1 THEN "first" ELSE "last"]]]

\* the request posted by start_task
start_task(m, ratio_str, d, prompt_images) ==
    [endpoint |-> Endpoint(prompt_images),
     model |-> m, ratio |-> ratio_str, duration |-> d, seed |-> SEED,
     promptImage |-> PromptImage(prompt_images)]

\* st.code(f"HTTP {resp.status_code}\n{resp.text[:500]}")
Shown(r) == [code |-> r.status_code, text |-> TextPrefix(r.text, TEXT_SHOWN)]

\* a check that stops on server errors only
StartFailed_5xx(r) == r.status_code >= 500

\* if resp.status_code != 200
StartFailed(r) == r.status_code # 200

\* task.get("id") or task.get("task",{}).get("id")
TaskIdOf(r) == IF Truthy(r.id) THEN r.id ELSE r.task_id

\* only app_help checks `if not task_id`
ChecksTaskId(v) == v = "app_help"

\* the st.error shown for a submission answered with a status other than 200
StartErrorMessage(v, text) ==
    IF v = "app_help" /\ text.about = "credits" THEN "not_enough_credits"
    ELSE IF v = "app_help" /\ text.about = "ratio" THEN "ratio_not_allowed"
    ELSE "failed_to_start"

\* js.get("status") or js.get("state")
StateOf(js) == IF Truthy(js.status) THEN js.status ELSE js.state

IsSuccessState(state) == state \in {"SUCCEEDED", "COMPLETED", "succeeded"}

IsFailureState(state) == state \in {"FAILED", "ERROR", "CANCELLED"}

\* the class the poll loop acts on
Classify(js) ==
    IF IsSuccessState(StateOf(js)) THEN "Succeeded"
    ELSE IF IsFailureState(StateOf(js)) THEN "Failed"
    ELSE "Pending"

\* js.get("output") or [] : result.output is not looked at
OutputOf_toponly(js) == IF OutTruthy(js.output) THEN js.output ELSE OutList(<<>>)

\* js.get("output") or js.get("result",{}).get("output") or []
OutputOf(js) ==
    IF OutTruthy(js.output) THEN js.output
    ELSE IF OutTruthy(js.result_output) THEN js.result_output
    ELSE OutList(<<>>)

\* output[-1] in place of output[0]
VideoUrl_last(output) ==
    IF output.kind = "list" THEN output.items[Len(output.items)] ELSE output.str

\* output[0] if isinstance(output, list) else output
VideoUrl(output) == IF output.kind = "list" THEN output.items[1] ELSE output.str

\* json.dumps(js, indent=2): every key of the payload with its value
Dumps(js) ==
    [status |-> js.status, state |-> js.state, output |-> js.output,
     result_output |-> js.result_output]

\* where an exception raised inside the run ends it: app_upd wraps the submit
\* and the poll loop in try/except + st.stop, app_help only the submit
RaisedInSubmit(v) == IF v = "app" THEN "raised" ELSE "stopped"
RaisedInPoll(v) == IF v = "app_upd" THEN "stopped" ELSE "raised"

\* a failure state that is swallowed: the loop goes on
FailurePc_goes_on(v) == "poll"

\* how the run leaves the loop on a failure state: raise RuntimeError (uncaught
\* in app, caught with st.error + st.stop in app_upd) or st.error + st.stop
\* (app_help)
FailurePc(v) == IF v = "app" THEN "raised" ELSE "stopped"

----------------------------------------------------------------------------
(* The vocabulary of the lifecycle contract: a token counts by its letters, *)
(* whatever their case                                                      *)

Lower(tok) ==
    CASE tok \in {"SUCCEEDED", "succeeded", "Succeeded"} -> "succeeded"
      [] tok \in {"COMPLETED", "completed"} -> "completed"
      [] tok \in {"FAILED", "failed"} -> "failed"
      [] tok = "ERROR" -> "error"
      [] tok \in {"CANCELLED", "cancelled"} -> "cancelled"
      [] tok = "PENDING" -> "pending"
      [] tok = "RUNNING" -> "running"
      [] OTHER -> tok

ContractClass(j) ==
    IF Lower(StateOf(j)) \in {"succeeded", "completed"} THEN "Succeeded"
    ELSE IF Lower(StateOf(j)) \in {"failed", "error", "cancelled"} THEN "Failed"
    ELSE "Pending"

----------------------------------------------------------------------------
(* State *)

VARIABLES
    variant,     \* which of the three scripts runs
    entry,       \* "script": a run of the script; "poll_task": a call of poll_task
    pc,          \* where the run is
    msg,         \* the last message shown (st.warning / st.error / st.success ...)
    model, ratio, duration, uploads,   \* what the widgets returned in this run
    data_uris,   \* the encoded images
    request,     \* <<the request posted by start_task>>, or <<>>
    nSubmits,    \* submission requests issued
    resp,        \* <<the answer to the submission>>, or <<>>
    shown,       \* <<what st.code displays of the submission response>>, or <<>>
    task_id,     \* the id taken from the submission response
    nPolls,      \* status requests issued
    polled,      \* the ids status requests were issued for
    nSleeps,     \* time.sleep(2) calls made
    elapsed,     \* time slept in the loop
    nPending,    \* responses after which the loop went on
    nFetchErr,   \* status requests that raised
    js,          \* <<the last status payload>>, or <<>>
    output,      \* the output taken from the success payload
    video_url,   \* <<the url given to st.video>>, or <<>>
    nDownloads,  \* download requests issued
    diag,        \* <<the diagnostic exposed on a failure state>>, or <<>>
    allPending,  \* history: every payload so far is Pending in the contract's terms
    n_img,       \* the image given to normalize_to_ratio_pad
    n_target,    \* the ratio string selected
    n_pc,        \* the phase of the normaliser that comes next
    n_cur,       \* the image so far
    n_step       \* the last phase's canvas and paste offset

submitVars == <<model, ratio, duration, uploads, data_uris, request, nSubmits, resp,
               shown, task_id>>
pollVars == <<nPolls, polled, nSleeps, elapsed, nPending, nFetchErr, js, output,
              video_url, nDownloads, diag, allPending>>
normVars == <<n_img, n_target, n_pc, n_cur, n_step>>
vars == <<variant, entry, pc, msg, submitVars, pollVars, normVars>>

NoStep == [w |-> 0, h |-> 0, x |-> 0, y |-> 0, padded |-> FALSE]

NormIdle ==
    /\ n_img = Img(0, 0)
    /\ n_target = ALLOWED_RATIOS[1]
    /\ n_pc = "off"
    /\ n_cur = Img(0, 0)
    /\ n_step = NoStep

PollIdle ==
    /\ nPolls = 0
    /\ polled = {}
    /\ nSleeps = 0
    /\ elapsed = 0
    /\ nPending = 0
    /\ nFetchErr = 0
    /\ js = <<>>
    /\ output = OutNone
    /\ video_url = <<>>
    /\ nDownloads = 0
    /\ diag = <<>>
    /\ allPending = TRUE

\* the script has rendered its widgets and waits for the Generate button
Init ==
    /\ variant \in Variants
    /\ entry = "script"
    /\ pc = "ready"
    /\ msg = ""
    /\ model = "gen4_turbo"
    /\ ratio = ALLOWED_RATIOS[1]
    /\ duration = 10
    /\ uploads = <<>>
    /\ data_uris = <<>>
    /\ request = <<>>
    /\ nSubmits = 0
    /\ resp = <<>>
    /\ shown = <<>>
    /\ task_id = NONE
    /\ PollIdle
    /\ NormIdle

----------------------------------------------------------------------------
(* The run of the script: `if go:` *)

\* Generate is clicked: upload guard, preprocessing loop, start_task posts
GenerateWith(m, r, d, ups) ==
    /\ model' = m
    /\ ratio' = r
    /\ duration' = d
    /\ uploads' = ups
    /\ IF ups = <<>>
       THEN /\ pc' = "stopped"
            /\ msg' = "upload_at_least_one"
            /\ UNCHANGED <<data_uris, request, nSubmits>>
       ELSE LET uris == [i \in 1..Len(ups) |-> Preprocess(ups[i], r, variant)]
            IN  /\ data_uris' = uris
                /\ request' = <<start_task(m, r, d, uris)>>
                /\ nSubmits' = nSubmits + 1
                /\ pc' = "submit"
                /\ msg' = "submitting"
    /\ UNCHANGED <<variant, entry, resp, shown, task_id, pollVars, normVars>>

\* the widgets return a model, one of ALLOWED_RATIOS, one of the model's
\* durations and the uploaded files
Generate ==
    /\ entry = "script"
    /\ pc = "ready"
    /\ \E m \in ModelNames, r \in Range(ALLOWED_RATIOS), ups \in UploadLists :
         \E d \in DurationOptions(m) : GenerateWith(m, r, d, ups)

\* the submission is answered
SubmitResponse(r) ==
    /\ entry = "script"
    /\ pc = "submit"
    /\ resp' = <<r>>
    /\ shown' = <<Shown(r)>>
    /\ IF StartFailed(r)
       THEN /\ pc' = "stopped"
            /\ msg' = StartErrorMessage(variant, r.text)
            /\ UNCHANGED task_id
       ELSE /\ task_id' = TaskIdOf(r)
            /\ IF ChecksTaskId(variant) /\ ~Truthy(TaskIdOf(r))
               THEN pc' = "stopped" /\ msg' = "no_task_id"
               ELSE pc' = "poll" /\ msg' = "task_started"
    /\ UNCHANGED <<variant, entry, model, ratio, duration, uploads, data_uris,
                   request, nSubmits, pollVars, normVars>>

\* requests.post raises (connection error, timeout after 60 s)
SubmitRaises ==
    /\ entry = "script"
    /\ pc = "submit"
    /\ pc' = RaisedInSubmit(variant)
    /\ msg' = "request_failed"
    /\ UNCHANGED <<variant, entry, submitVars, pollVars, normVars>>

\* top of the inline loop: requests.get(f"{API_BASE}/v1/tasks/{task_id}")
PollRequest ==
    /\ entry = "script"
    /\ pc = "poll"
    /\ nPolls < MaxPolls
    /\ nPolls' = nPolls + 1
    /\ polled' = polled \cup {task_id}
    /\ pc' = "status"
    /\ UNCHANGED <<variant, entry, msg, submitVars, nSleeps, elapsed, nPending,
                   nFetchErr, js, output, video_url, nDownloads, diag, allPending,
                   normVars>>

\* the status request is answered with payload j: the rest of the iteration
\* and, on a success state, the result handling after the loop
StatusResponse(j) ==
    /\ entry = "script"
    /\ pc = "status"
    /\ js' = <<j>>
    /\ allPending' = (allPending /\ ContractClass(j) = "Pending")
    /\ IF IsSuccessState(StateOf(j))
       THEN /\ output' = OutputOf(j)
            /\ IF ~OutTruthy(OutputOf(j))
               THEN /\ pc' = "stopped"
                    /\ msg' = "no_output"
                    /\ UNCHANGED <<video_url, nDownloads>>
               ELSE /\ video_url' = <<VideoUrl(OutputOf(j))>>
                    /\ nDownloads' = nDownloads + 1
                    /\ pc' = "download"
                    /\ msg' = "video"
            /\ UNCHANGED <<nSleeps, elapsed, nPending, diag>>
       ELSE IF IsFailureState(StateOf(j))
       THEN /\ diag' = <<Dumps(j)>>
            /\ pc' = FailurePc(variant)
            /\ msg' = "job_failed"
            /\ UNCHANGED <<nSleeps, elapsed, nPending, output, video_url, nDownloads>>
       ELSE /\ nPending' = nPending + 1
            /\ nSleeps' = nSleeps + 1
            /\ elapsed' = elapsed + POLL_DELAY
            /\ pc' = "poll"
            /\ UNCHANGED <<msg, output, video_url, nDownloads, diag>>
    /\ UNCHANGED <<variant, entry, submitVars, nPolls, polled, nFetchErr, normVars>>

\* the status request raises (connection error, timeout, body that is no JSON)
StatusRaises ==
    /\ entry = "script"
    /\ pc = "status"
    /\ nFetchErr' = nFetchErr + 1
    /\ pc' = RaisedInPoll(variant)
    /\ msg' = "fetch_error"
    /\ UNCHANGED <<variant, entry, submitVars, nPolls, polled, nSleeps, elapsed,
                   nPending, js, output, video_url, nDownloads, diag, allPending,
                   normVars>>

\* requests.get(video_url) returns the bytes for the download button
DownloadResponse ==
    /\ entry = "script"
    /\ pc = "download"
    /\ pc' = "done"
    /\ msg' = "download_ready"
    /\ UNCHANGED <<variant, entry, submitVars, pollVars, normVars>>

\* requests.get(video_url) raises: uncaught in app, a warning in the others
DownloadRaises ==
    /\ entry = "script"
    /\ pc = "download"
    /\ pc' = IF variant = "app" THEN "raised" ELSE "done"
    /\ msg' = "download_failed"
    /\ UNCHANGED <<variant, entry, submitVars, pollVars, normVars>>

----------------------------------------------------------------------------
(* poll_task(task_id), defined by app and app_upd *)

PollTaskRequest ==
    /\ entry = "poll_task"
    /\ pc = "poll"
    /\ nPolls < MaxPolls
    /\ nPolls' = nPolls + 1
    /\ polled' = polled \cup {task_id}
    /\ pc' = "status"
    /\ UNCHANGED <<variant, entry, msg, submitVars, nSleeps, elapsed, nPending,
                   nFetchErr, js, output, video_url, nDownloads, diag, allPending,
                   normVars>>

PollTaskResponse(j) ==
    /\ entry = "poll_task"
    /\ pc = "status"
    /\ js' = <<j>>
    /\ allPending' = (allPending /\ ContractClass(j) = "Pending")
    /\ IF IsSuccessState(StateOf(j))
       THEN /\ output' = OutputOf(j)
            /\ pc' = "returned"
            /\ msg' = "returned"
            /\ UNCHANGED <<nSleeps, elapsed, nPending, diag>>
       ELSE IF IsFailureState(StateOf(j))
       THEN /\ diag' = <<Dumps(j)>>
            /\ pc' = "raised"
            /\ msg' = "job_failed"
            /\ UNCHANGED <<nSleeps, elapsed, nPending, output>>
       ELSE /\ nPending' = nPending + 1
            /\ nSleeps' = nSleeps + 1
            /\ elapsed' = elapsed + POLL_DELAY
            /\ pc' = "poll"
            /\ UNCHANGED <<msg, output, diag>>
    /\ UNCHANGED <<variant, entry, submitVars, nPolls, polled, nFetchErr,
                   video_url, nDownloads, normVars>>

PollTaskRaises ==
    /\ entry = "poll_task"
    /\ pc = "status"
    /\ nFetchErr' = nFetchErr + 1
    /\ pc' = "raised"
    /\ msg' = "fetch_error"
    /\ UNCHANGED <<variant, entry, submitVars, nPolls, polled, nSleeps, elapsed,
                   nPending, js, output, video_url, nDownloads, diag, allPending,
                   normVars>>

----------------------------------------------------------------------------
(* normalize_to_ratio_pad and the downscale, phase by phase *)

NormClamp ==
    /\ n_pc = "clamp"
    /\ n_step' = ClampPhase(n_cur)
    /\ n_cur' = Img(ClampPhase(n_cur).w, ClampPhase(n_cur).h)
    /\ n_pc' = "match"
    /\ UNCHANGED <<variant, entry, pc, msg, submitVars, pollVars, n_img, n_target>>

NormMatch ==
    /\ n_pc = "match"
    /\ n_step' = MatchPhase(n_cur, ratio_to_float(n_target))
    /\ n_cur' = Img(MatchPhase(n_cur, ratio_to_float(n_target)).w,
                    MatchPhase(n_cur, ratio_to_float(n_target)).h)
    /\ n_pc' = "scale"
    /\ UNCHANGED <<variant, entry, pc, msg, submitVars, pollVars, n_img, n_target>>

NormDownscale ==
    /\ n_pc = "scale"
    /\ n_cur' = Downscale(n_cur, max_px(variant))
    /\ n_pc' = "encoded"
    /\ UNCHANGED <<variant, entry, pc, msg, submitVars, pollVars, n_img, n_target, n_step>>

----------------------------------------------------------------------------
(* Specifications *)

NextSubmit ==
    \/ Generate
    \/ \E r \in SubmitResponses : SubmitResponse(r)
    \/ SubmitRaises

NextPoll ==
    \/ PollRequest
    \/ \E j \in StatusPayloads : StatusResponse(j)
    \/ StatusRaises
    \/ DownloadResponse
    \/ DownloadRaises
    \/ PollTaskRequest
    \/ \E j \in StatusPayloads : PollTaskResponse(j)
    \/ PollTaskRaises

NextNorm == NormClamp \/ NormMatch \/ NormDownscale

Next == NextSubmit \/ NextPoll

\* the whole run of the script, from the rendered page; SpecSubmit and
\* SpecPoll below explore it in two parts, cut where the task has started
Spec == Init /\ [][Next]_vars

\* the run up to the answer to the submission
SpecSubmit == Init /\ [][NextSubmit]_vars

\* the widgets' default values (index=0, value=allowed_durations[-1]) and one upload
DefaultChoice ==
    /\ model = "gen4_turbo"
    /\ ratio = ALLOWED_RATIOS[1]
    /\ duration = 10
    /\ uploads \in {<<f>> : f \in UploadImages}

\* what Generate and SubmitResponse leave when a task has started
StartedJob ==
    /\ data_uris = [i \in 1..Len(uploads) |-> Preprocess(uploads[i], ratio, variant)]
    /\ request = <<start_task(model, ratio, duration, data_uris)>>
    /\ nSubmits = 1
    /\ \E r \in SubmitResponses :
         /\ ~StartFailed(r)
         /\ ChecksTaskId(variant) => Truthy(TaskIdOf(r))
         /\ resp = <<r>>
         /\ shown = <<Shown(r)>>
         /\ task_id = TaskIdOf(r)
    /\ msg = "task_started"

\* SpecPoll starts where SpecSubmit ends: under SpecSubmit every run that
\* enters the poll loop is a StartedJob
PollEntryIsStartedJob == pc = "poll" => StartedJob /\ PollIdle /\ NormIdle

\* a job that start_task has created with the widgets' default values and one
\* upload, or a direct call of poll_task
InitPoll ==
    /\ variant \in Variants
    /\ entry \in {"script", "poll_task"}
    /\ entry = "poll_task" => variant \in {"app", "app_upd"}
    /\ pc = "poll"
    /\ PollIdle
    /\ NormIdle
    /\ IF entry = "script"
       THEN DefaultChoice /\ StartedJob
       ELSE /\ model = "gen4_turbo"
            /\ ratio = ALLOWED_RATIOS[1]
            /\ duration = 10
            /\ uploads = <<>>
            /\ data_uris = <<>>
            /\ request = <<>>
            /\ nSubmits = 0
            /\ resp = <<>>
            /\ shown = <<>>
            /\ task_id \in {"t1", "t2"}
            /\ msg = ""

SpecPoll == InitPoll /\ [][NextPoll]_vars

MaxDim == 12

\* the image sizes the normaliser is run on
NormDims == (1..MaxDim) \cup {100, 500, 720, 1000, 1280, 2000}

InitNorm ==
    /\ variant \in Variants
    /\ entry = "normalize"
    /\ pc = "off"
    /\ msg = ""
    /\ model = "gen4_turbo"
    /\ ratio = ALLOWED_RATIOS[1]
    /\ duration = 10
    /\ uploads = <<>>
    /\ data_uris = <<>>
    /\ request = <<>>
    /\ nSubmits = 0
    /\ resp = <<>>
    /\ shown = <<>>
    /\ task_id = NONE
    /\ PollIdle
    /\ n_img \in {Img(w, h) : w \in NormDims, h \in NormDims}
    /\ n_target \in Range(ALLOWED_RATIOS)
    /\ n_pc = "clamp"
    /\ n_cur = n_img
    /\ n_step = NoStep

SpecNorm == InitNorm /\ [][NextNorm]_vars

----------------------------------------------------------------------------
(* Vocabulary of the properties *)

SuccessMessages == {"video", "download_ready", "download_failed", "no_output", "returned"}

\* the class the run has acted on for the last payload
ObservedClass ==
    CASE msg = "job_failed" -> "Failed"
      [] msg \in SuccessMessages -> "Succeeded"
      [] OTHER -> "Pending"

\* the lifecycle state of the job
Lifecycle ==
    CASE msg = "job_failed" -> "Failed"
      [] msg \in SuccessMessages -> "Succeeded"
      [] msg = "fetch_error" -> "Error"
      [] pc = "poll" /\ nPolls = 0 -> "Created"
      [] pc \in {"poll", "status"} -> "Pending"
      [] OTHER -> "None"

FailedObserved == js # <<>> /\ Classify(js[1]) = "Failed"

SucceededWithList ==
    /\ js # <<>>
    /\ Classify(js[1]) = "Succeeded"
    /\ js[1].output.kind = "list"
    /\ js[1].output.items # <<>>

NonOk == resp # <<>> /\ resp[1].status_code \notin 200..299

Clamped(img) == img.w <= 2 * img.h /\ img.h <= 2 * img.w

----------------------------------------------------------------------------
(* Properties *)

\* C1: when every status response is Pending, no status request is issued
\* beyond the poll budget (the job times out instead).
C1_BudgetEndsPolling == allPending => nPolls <= PollBudget

\* C2: a failure state, at whatever position in the sequence of responses,
\* ends the run at once: nothing more can happen (no status request, no
\* delay), every response before it was followed by one delay and this one by
\* none, the job is Failed and the diagnostic is the whole payload.
C2_FailureEndsLoop ==
    FailedObserved =>
        /\ pc \in {"raised", "stopped"}
        /\ ~ENABLED NextPoll
        /\ nPolls = nPending + 1
        /\ nSleeps = nPending
        /\ elapsed = 2 * nPending
        /\ Lifecycle = "Failed"
        /\ diag = <<js[1]>>

C2_Witness == FailedObserved /\ nPending = 2 /\ js[1].status = "CANCELLED"

\* C3: k Pending responses followed by Succeeded with a non-empty list L end
\* the job as Succeeded after exactly k+1 status requests and k delays of 2
\* time units, and the artifact is L[0].
C3_PendingThenSucceeded ==
    SucceededWithList =>
        /\ nPolls = nPending + 1
        /\ nSleeps = nPending
        /\ elapsed = 2 * nPending
        /\ Lifecycle = "Succeeded"
        /\ entry = "script" => video_url = <<js[1].output.items[1]>>
        /\ entry = "poll_task" => /\ pc = "returned"
                                  /\ output = js[1].output
                                  /\ VideoUrl(output) = js[1].output.items[1]

C3_Witness ==
    /\ SucceededWithList
    /\ entry = "script"
    /\ js[1].output = OutList(<<"url">>)
    /\ nPending = 2
    /\ nSleeps = 2
    /\ video_url = <<"url">>

\* C4: the class the loop acts on is Succeeded for every case variant of
\* "succeeded"/"completed", Failed for every case variant of
\* "failed"/"error"/"cancelled", and Pending for every other token.
C4_ClassByToken == js # <<>> => ObservedClass = ContractClass(js[1])

\* C5: a status request that raises does not end the job at once: the run
\* ends on a fetch error only after the request has been retried.
C5_FetchErrorRetried == msg = "fetch_error" => nFetchErr > 1

C8_ImageField ==
    request # <<>> =>
        LET p == request[1].promptImage
            N == Len(uploads)
        IN  /\ N >= 1
            /\ Len(data_uris) = N
            /\ \A i \in 1..N : data_uris[i].src = uploads[i].name
            /\ N = 1 => p.kind = "str" /\ p.uri = data_uris[1]
            /\ N > 1 => /\ p.kind = "list"
                        /\ Len(p.arr) = N
                        /\ \A i \in 1..N : p.arr[i].uri = data_uris[i]
                        /\ p.arr[1].position = "first"
                        /\ \A i \in 2..N : p.arr[i].position = "last"

C8_Witness ==
    /\ request # <<>>
    /\ Len(uploads) = 3
    /\ uploads[1] # uploads[2]
    /\ request[1].promptImage.arr[3].position = "last"

C10_MatchWithinTolerance ==
    (n_pc = "scale" /\ Clamped(n_img)) =>
        ~RatioDiffers(n_cur.w, n_cur.h, ratio_to_float(n_target))

\* C11: after the clamp phase, an image with width/height > 2.0 is on a canvas
\* of the same width whose ratio is 2.0 within 1e-3, pasted vertically
\* centered; an image with width/height < 0.5 is on a canvas of the same
\* height whose ratio is 0.5 within 1e-3, pasted horizontally centered.
C11_ClampToBound ==
    n_pc = "match" =>
        /\ n_img.w > 2 * n_img.h =>
              /\ n_cur.w = n_img.w
              /\ ~RatioDiffers(n_cur.w, n_cur.h, [num |-> 2, den |-> 1])
              /\ n_step.x = 0
              /\ n_step.y = (n_cur.h - n_img.h) \div 2
        /\ 2 * n_img.w < n_img.h =>
              /\ n_cur.h = n_img.h
              /\ ~RatioDiffers(n_cur.w, n_cur.h, [num |-> 1, den |-> 2])
              /\ n_step.y = 0
              /\ n_step.x = (n_cur.w - n_img.w) \div 2

\* C12: normalising the result of normalize_to_ratio_pad again with the same
\* target returns an image of the same width and height (no further padding).
C12_Idempotent ==
    n_pc = "scale" =>
        /\ n_cur = normalize_to_ratio_pad(n_img, ratio_to_float(n_target))
        /\ normalize_to_ratio_pad(n_cur, ratio_to_float(n_target)) = n_cur

\* one padding step: `img` pasted at (step.x, step.y) into a canvas of size
\* (step.w, step.h)
StepKeepsImage(img, step) ==
    /\ step.w >= img.w
    /\ step.h >= img.h
    /\ step.w = img.w \/ step.h = img.h
    /\ step.x >= 0 /\ step.x + img.w <= step.w
    /\ step.y >= 0 /\ step.y + img.h <= step.h

\* the border on each axis is split floor before the image, ceil after it
StepCentered(img, step) ==
    LET right == step.w - img.w - step.x
        below == step.h - img.h - step.y
    IN  /\ step.x <= right /\ right <= step.x + 1
        /\ step.y <= below /\ below <= step.y + 1

\* C13: normalize_to_ratio_pad never crops: in each padding step (clamp and
\* match) the canvas is at least as wide and as high as the image pasted into
\* it, at most one of the two dimensions changes, and the image is pasted
\* centered, the border split floor on the leading and ceil on the trailing
\* side, so the image lies wholly inside the canvas.
C13_NeverCrops ==
    [][ (n_pc \in {"clamp", "match"}) =>
            (/\ n_cur' = Img(n_step'.w, n_step'.h)
             /\ StepKeepsImage(n_cur, n_step')
             /\ StepCentered(n_cur, n_step')
             /\ (~n_step'.padded => n_cur' = n_cur)) ]_vars

\* both phases have padded a 7x1 image, each by three rows: one above, two below
C13_Witness ==
    /\ n_pc = "scale"
    /\ n_img = Img(7, 1)
    /\ n_target = <<960, 960>>
    /\ n_step = [w |-> 7, h |-> 7, x |-> 0, y |-> 1, padded |-> TRUE]
    /\ n_cur = Img(7, 7)

\* the normalised image the downscale step was given (canvas of the match step)
Normalised == Img(n_step.w, n_step.h)

\* C14: when the normalised image has max(width, height) > max_px, the image
\* that is encoded has its longer side equal to max_px and its width/height
\* within 1e-3 of the target; when max(width, height) <= max_px it is the
\* normalised image itself.
C14_DownscaleKeepsRatio ==
    n_pc = "encoded" =>
        IF Max2(Normalised.w, Normalised.h) > max_px(variant)
        THEN /\ Max2(n_cur.w, n_cur.h) = max_px(variant)
             /\ ~RatioDiffers(n_cur.w, n_cur.h, ratio_to_float(n_target))
        ELSE n_cur = Normalised

\* the same, for normalised images that are themselves within 1e-3 of the target
C14_FromExactRatio ==
    (n_pc = "encoded" /\ ~RatioDiffers(Normalised.w, Normalised.h, ratio_to_float(n_target)))
        => C14_DownscaleKeepsRatio

\* the size parts alone: longer side max_px when resized, untouched otherwise
C14_SizeOnly ==
    n_pc = "encoded" =>
        IF Max2(Normalised.w, Normalised.h) > max_px(variant)
        THEN Max2(n_cur.w, n_cur.h) = max_px(variant)
        ELSE n_cur = Normalised

\* an image wider than 2:1 on the canvas of ratio 2.0: same width, height round(w / 2)
OnBoundCanvas(img) == Img(img.w, PyRound(img.w, 2))

\* C15: an image with width/height > 2.0 goes through two passes: the clamp
\* pads it to the fixed bound 2.0 whatever the target is, and the result is the
\* ratio match applied to that canvas.  2000x500 with target 960:960 is
\* 2000x1000 after the clamp and 2000x2000 after the match; 1280x720 with
\* target 1280:720 comes back unchanged.
C15_TwoPasses ==
    /\ (n_pc = "match" /\ n_img.w > 2 * n_img.h) =>
            /\ n_step.padded
            /\ n_cur = OnBoundCanvas(n_img)
    /\ (n_pc = "scale" /\ n_img.w > 2 * n_img.h) =>
            LET m == MatchPhase(OnBoundCanvas(n_img), ratio_to_float(n_target))
            IN  /\ n_cur = Img(m.w, m.h)
                /\ n_cur = normalize_to_ratio_pad(n_img, ratio_to_float(n_target))
    /\ (n_img = Img(2000, 500) /\ n_target = <<960, 960>>) =>
            /\ n_pc = "match" => n_cur = Img(2000, 1000)
            /\ n_pc = "scale" => n_cur = Img(2000, 2000)
    /\ (n_img = Img(1280, 720) /\ n_target = <<1280, 720>>) =>
            /\ n_pc \in {"match", "scale"} => (n_cur = n_img /\ ~n_step.padded)

\* 2000x500 with 960:960 has been through both passes
C15_Witness ==
    /\ n_pc = "scale"
    /\ n_img = Img(2000, 500)
    /\ n_target = <<960, 960>>
    /\ n_cur = Img(2000, 2000)
    /\ n_step = [w |-> 2000, h |-> 2000, x |-> 0, y |-> 500, padded |-> TRUE]

\* the poll budget is used up: PollBudget status responses, every one Pending
BudgetExhausted == allPending /\ nPending >= PollBudget

C16_ObservedAbsorbing ==
    [][ (Lifecycle \in {"Succeeded", "Failed"}) =>
            (nPolls' = nPolls /\ polled' = polled /\ Lifecycle' = Lifecycle) ]_vars

\* the submission was answered with 200 and a body that has neither id nor task.id
NoTaskIdReturned ==
    /\ resp # <<>>
    /\ resp[1].status_code = 200
    /\ ~Truthy(TaskIdOf(resp[1]))

\* C17: in every variant a status request is issued only for a non-empty task
\* id: when the 200 submission response carries no id, the run stops with an
\* error and no status request is made.
C17_NoPollWithoutTaskId ==
    /\ \A t \in polled : Truthy(t)
    /\ NoTaskIdReturned =>
          /\ pc = "stopped"
          /\ msg = "no_task_id"
          /\ nPolls = 0

\* the same for the one variant that checks the task id
C17_CheckedInAppHelp == variant = "app_help" => C17_NoPollWithoutTaskId

\* an output value that holds an artifact: a list with an element, or a text
HasArtifact(o) == (o.kind = "list" /\ Len(o.items) > 0) \/ (o.kind = "str" /\ o.str # "")

\* the last payload is a success state of the inline loop
SucceededInScript == entry = "script" /\ js # <<>> /\ Classify(js[1]) = "Succeeded"

\* the output the success payload carries: `output`, else `result.output`
CarriedOutput == IF HasArtifact(js[1].output) THEN js[1].output ELSE js[1].result_output

\* C18: a video is shown and the download request issued only after a success
\* state with a non-empty output; a success response whose output is empty or
\* missing in `output` and in `result.output` ends the run with an error, no
\* video and no download request; otherwise the artifact is the first element
\* of a list output and the output itself when it is not a list.
C18_ArtifactOnlyFromOutput ==
    /\ (video_url # <<>> \/ nDownloads > 0) =>
          /\ SucceededInScript
          /\ HasArtifact(CarriedOutput)
    /\ (SucceededInScript /\ ~HasArtifact(CarriedOutput)) =>
          /\ pc = "stopped"
          /\ msg = "no_output"
          /\ video_url = <<>>
          /\ nDownloads = 0
    /\ (SucceededInScript /\ HasArtifact(CarriedOutput)) =>
          /\ nDownloads = 1
          /\ pc \in {"download", "done", "raised"}
          /\ CarriedOutput.kind = "list" => video_url = <<CarriedOutput.items[1]>>
          /\ CarriedOutput.kind # "list" => video_url = <<CarriedOutput.str>>

\* a success payload with an empty list and no result.output has stopped the run
C18_Witness ==
    /\ SucceededInScript
    /\ js[1].output = OutList(<<>>)
    /\ js[1].result_output = OutNone
    /\ nPending = 1
    /\ pc = "stopped"
    /\ msg = "no_output"
    /\ video_url = <<>>

====
